---- MODULE Spec2Model ----
(***************************************************************************)
(* Order placement, order lifecycle and coupon evaluation of the           *)
(* e-commerce backend: orderController (createOrder, updateOrderStatus,    *)
(* cancelOrder), paymentController (createPaymentIntent, confirmPayment,   *)
(* createMobilePayment, verifyMobilePayment), the Order model's pre-save   *)
(* hook and the Coupon model's isActiveNow / calculateDiscount /           *)
(* incrementUsage; cartController (getCart, addToCart), productController   *)
(* (updateProduct, deleteProduct, updateStock), and createOrder taken one  *)
(* database call at a time for two concurrent requests.                    *)
(*                                                                         *)
(* Money is counted in units of 1/10000 of a currency unit, so that 8% tax *)
(* and whole-number percentages of whole-cent prices are exact integers.   *)
(* A string field holding JavaScript null is NULL; a nullable number or    *)
(* sub-document is None or Some(value).                                    *)
(***************************************************************************)
EXTENDS Integers, Sequences, FiniteSets, TLC

NULL == "null"

\* a nullable number or sub-document: None is null, Some(x) holds x
None == <<>>

Some(x) == <<x>>

Val(o) == o[1]

Cur(n) == n * 10000

Min(a, b) == IF a < b THEN a ELSE b

\* ---------------------------------------------------------------- bounds
MaxQty == 2          \* largest quantity a request line asks for
MaxOrders == 1       \* most createOrder requests in one behaviour
MaxHist == 2         \* longest status history explored
MaxUses == 2         \* most incrementUsage calls on one coupon
MaxTime == 3         \* last instant of the clock
MaxEdits == 1        \* most admin catalog requests in one behaviour
MaxCart == 2         \* most lines in the cart

\* ------------------------------------------------------- program constants
FreeShippingOver == 50      \* itemsPrice > 50 ? 0 : 10
ShippingFlatFee == 10
TaxPercent == 8             \* itemsPrice * 0.08
SimulatedCouponPercent == 10 \* itemsPrice * 0.1

OrderStatuses ==
  {"pending", "confirmed", "processing", "shipped", "delivered", "cancelled", "refunded"}

Cancellable == {"pending", "confirmed"}

\* ---------------------------------------------------- concurrent requests
RequestIds == {1, 2}

\* ------------------------------------------------------------ the catalog
ProductIds == {"p1", "p2"}

VariantSelectors == {NULL, "V1", "VX"}

CouponCodes == {NULL, "SAVE"}

InitProducts ==
  [p \in ProductIds |->
     IF p = "p1"
     THEN [sku |-> "P1", isActive |-> TRUE, price |-> Cur(30), isOnSale |-> FALSE,
           salePrice |-> 0, saleStart |-> None, saleEnd |-> None,
           stock |-> 2, soldCount |-> 0,
           variants |-> [s \in {} |-> [price |-> 0, stock |-> 0]]]
     ELSE [sku |-> "P2", isActive |-> TRUE, price |-> Cur(60), isOnSale |-> TRUE,
           salePrice |-> Cur(45), saleStart |-> None, saleEnd |-> None,
           stock |-> 2, soldCount |-> 0,
           variants |-> [s \in {"V1"} |-> [price |-> Cur(20), stock |-> 2]]]]

VARIABLES
  products,   \* the Product collection: id -> document
  orders,     \* the Order collection, in creation order
  placed,     \* history: for each order, the catalog before and after its createOrder
  attempts,   \* history: the number of createOrder requests so far
  resp,       \* the response of the last order, payment, catalog or cart request
  coupons,    \* the Coupon collection: code -> document
  now,        \* the clock read by new Date()
  cresp,      \* the outcome of the last coupon operation
  cart,       \* the items of the user's Cart document
  summary,    \* the summary of the last getCart response
  edits,      \* history: the number of admin catalog requests so far
  reqs        \* the createOrder requests in flight: request -> its position and locals

orderVars == <<products, orders, placed, attempts, resp>>

couponVars == <<coupons, now, cresp>>

cartVars == <<cart, summary>>

vars == <<products, orders, placed, attempts, resp, coupons, now, cresp,
          cart, summary, edits, reqs>>

\* ------------------------------------------------------------ Product model
\* productSchema.virtual('currentPrice')
currentPrice(product) ==
  IF product.isOnSale /\ product.salePrice # 0 THEN product.salePrice ELSE product.price

\* ------------------------------------------------------------- createOrder
Lines ==
  [product : ProductIds, variant : VariantSelectors, quantity : 1..MaxQty]

\* requests of one line and of two lines
Requests == {<<a>> : a \in Lines} \cup {<<a, b>> : a, b \in Lines}

\* the variant the line selects, honoured only when the product has variants
SelectsVariant(product, item) ==
  item.variant # NULL /\ DOMAIN product.variants # {}

\* "Reduce stock" and "Update sold count" of one line, then product.save()
ReduceStock(product, item) ==
  LET reduced ==
        IF item.variant # NULL
        THEN IF item.variant \in DOMAIN product.variants
             THEN [product EXCEPT !.variants[item.variant].stock = @ - item.quantity]
             ELSE product
        ELSE [product EXCEPT !.stock = @ - item.quantity]
  IN [reduced EXCEPT !.soldCount = @ + item.quantity]

\* the for-loop over the request's lines: each line reads the stored product,
\* checks it and saves the reduced product before the next line is looked at
RECURSIVE ProcessItems(_, _, _, _)
ProcessItems(items, prods, orderItems, itemsPrice) ==
  IF items = <<>>
  THEN [kind |-> "ok", code |-> 201, products |-> prods,
        orderItems |-> orderItems, itemsPrice |-> itemsPrice]
  ELSE
    LET item == Head(items)
        product == prods[item.product]
        failed(kind, code) ==
          [kind |-> kind, code |-> code, products |-> prods,
           orderItems |-> orderItems, itemsPrice |-> itemsPrice]
    IN IF ~product.isActive
       THEN failed("NotFound", 404)
       ELSE IF SelectsVariant(product, item) /\ item.variant \notin DOMAIN product.variants
       THEN failed("VariantNotFound", 400)
       ELSE
         LET sel == SelectsVariant(product, item)
             availableStock ==
               IF sel THEN product.variants[item.variant].stock ELSE product.stock
             variantPrice ==
               IF sel THEN product.variants[item.variant].price
               ELSE IF currentPrice(product) # 0 THEN currentPrice(product)
                    ELSE product.price
             variantSku == IF sel THEN item.variant ELSE product.sku
         IN IF availableStock < item.quantity
            THEN failed("InsufficientStock", 400)
            ELSE
              LET line == [product |-> item.product,
                           price |-> variantPrice,
                           quantity |-> item.quantity,
                           variant |-> IF item.variant # NULL THEN variantSku ELSE NULL,
                           sku |-> variantSku,
                           total |-> variantPrice * item.quantity]
              IN ProcessItems(Tail(items),
                              [prods EXCEPT ![item.product] = ReduceStock(product, item)],
                              Append(orderItems, line),
                              itemsPrice + line.total)

shippingPriceOf(itemsPrice) ==
  IF itemsPrice > Cur(FreeShippingOver) THEN 0 ELSE Cur(ShippingFlatFee)

\* mutant: the tax is charged on the shipping too
taxPriceOnShipping(itemsPrice) ==
  ((itemsPrice + shippingPriceOf(itemsPrice)) * TaxPercent) \div 100

taxPriceOf(itemsPrice) == (itemsPrice * TaxPercent) \div 100

couponOf(couponCode, itemsPrice) ==
  IF couponCode # NULL
  THEN Some([code |-> couponCode,
             discount |-> (itemsPrice * SimulatedCouponPercent) \div 100])
  ELSE None

\* mutant: the coupon is recorded but its discount is not subtracted
totalPriceWithoutDiscount(itemsPrice, couponCode) ==
  itemsPrice + shippingPriceOf(itemsPrice) + taxPriceOf(itemsPrice)

totalPriceOf(itemsPrice, couponCode) ==
  LET gross == itemsPrice + shippingPriceOf(itemsPrice) + taxPriceOf(itemsPrice)
  IN IF couponCode # NULL THEN gross - Val(couponOf(couponCode, itemsPrice)).discount ELSE gross

NewOrder(orderItems, itemsPrice, couponCode, orderNumber) ==
  [orderNumber |-> orderNumber,
   items |-> orderItems,
   itemsPrice |-> itemsPrice,
   shippingPrice |-> shippingPriceOf(itemsPrice),
   taxPrice |-> taxPriceOf(itemsPrice),
   totalPrice |-> totalPriceOf(itemsPrice, couponCode),
   coupon |-> couponOf(couponCode, itemsPrice),
   orderStatus |-> "pending",
   paymentStatus |-> "pending",
   stripePaymentIntentId |-> FALSE,
   momoTransactionId |-> FALSE,
   statusHistory |-> <<>>,
   cancelledReason |-> NULL]

Init ==
  /\ products = InitProducts
  /\ orders = <<>>
  /\ placed = <<>>
  /\ attempts = 0
  /\ resp = [op |-> "none", kind |-> "ok", code |-> 0, order |-> 0]
  /\ coupons = [c \in {} |-> NULL]
  /\ now = 0
  /\ cresp = [op |-> "none", code |-> NULL, totalAmount |-> 0, kind |-> "ok", discount |-> 0]
  /\ cart = <<>>
  /\ summary = [subtotal |-> 0, shipping |-> 0, tax |-> 0, total |-> 0, totalItems |-> 0]
  /\ edits = 0
  /\ reqs = [r \in RequestIds |-> [pc |-> "idle"]]

\* orderSchema.pre('save'): the order number is ORD-<date>-<suffix>, the suffix
\* drawn at random; the collection's unique index rejects a number already stored
Suffixes == {1000, 9999}

NumberTaken(suffix) == \E i \in 1..Len(orders) : orders[i].orderNumber = suffix

\* the orderSchema / orderItemSchema validators run by Order.create
orderSchemaValid(order) ==
  /\ \A i \in 1..Len(order.items) :
        /\ order.items[i].price >= 0
        /\ order.items[i].quantity >= 1
        /\ order.items[i].total >= 0
  /\ order.itemsPrice >= 0
  /\ order.taxPrice >= 0
  /\ order.shippingPrice >= 0
  /\ order.totalPrice >= 0

\* sendOrderConfirmationEmail builds its HTML from order.shippingAddress.street;
\* the Order schema stores the address under shipping.address, so the read of
\* .street on undefined throws
sendOrderConfirmationEmail(order) == "throws"

CreateOrder(items, couponCode, suffix) ==
  LET r == ProcessItems(items, products, <<>>, 0)
      id == Len(orders) + 1
      order == NewOrder(r.orderItems, r.itemsPrice, couponCode, suffix)
  IN /\ attempts < MaxOrders
     /\ attempts' = attempts + 1
     /\ UNCHANGED <<couponVars, cartVars, edits, reqs>>
     /\ products' = r.products
     /\ IF r.kind # "ok"
        THEN /\ UNCHANGED <<orders, placed>>
             /\ resp' = [op |-> "createOrder", kind |-> r.kind, code |-> r.code, order |-> 0]
        ELSE IF NumberTaken(suffix) \/ ~orderSchemaValid(order)
        THEN /\ UNCHANGED <<orders, placed>>
             /\ resp' = [op |-> "createOrder", kind |-> "ServerError", code |-> 500, order |-> 0]
        ELSE /\ orders' = Append(orders, order)
             /\ placed' = Append(placed, [before |-> products, after |-> r.products])
             /\ resp' = IF sendOrderConfirmationEmail(order) = "throws"
                        THEN [op |-> "createOrder", kind |-> "ServerError", code |-> 500, order |-> id]
                        ELSE [op |-> "createOrder", kind |-> "ok", code |-> 201, order |-> id]

\* ------------------------------------------------------------- Order model
\* mutant: the history entry is pushed on every save
preSaveAlwaysPushes(old, new) ==
  [new EXCEPT !.statusHistory =
     Append(@, [status |-> new.orderStatus,
                note |-> IF new.orderStatus = "cancelled"
                         THEN new.cancelledReason ELSE "Status updated"])]

\* mutant: the history keeps the latest entry only
preSaveKeepingLatest(old, new) ==
  IF new.orderStatus # old.orderStatus
  THEN [new EXCEPT !.statusHistory =
          <<[status |-> new.orderStatus,
             note |-> IF new.orderStatus = "cancelled"
                      THEN new.cancelledReason ELSE "Status updated"]>>]
  ELSE new

\* orderSchema.pre('save'), "Add to status history": isModified('orderStatus')
\* holds when the saved document's orderStatus differs from the stored one
preSave(old, new) ==
  IF new.orderStatus # old.orderStatus
  THEN [new EXCEPT !.statusHistory =
          Append(@, [status |-> new.orderStatus,
                     note |-> IF new.orderStatus = "cancelled"
                              THEN new.cancelledReason ELSE "Status updated"])]
  ELSE new

\* mutant: the cancellation writes off the order's total
orderCancelOrderZeroingTotal(order, reason) ==
  preSave(order, [order EXCEPT !.orderStatus = "cancelled", !.cancelledReason = reason,
                               !.totalPrice = 0])

\* orderSchema.methods.cancelOrder
orderCancelOrder(order, reason) ==
  preSave(order, [order EXCEPT !.orderStatus = "cancelled", !.cancelledReason = reason])

\* --------------------------------------------------------- orderController
UpdateOrderStatus(o, status) ==
  LET order == orders[o]
  IN /\ Len(order.statusHistory) < MaxHist
     /\ orders' = [orders EXCEPT ![o] = preSave(order, [order EXCEPT !.orderStatus = status])]
     /\ resp' = [op |-> "updateOrderStatus", kind |-> "ok", code |-> 200, order |-> o]
     /\ UNCHANGED <<products, placed, attempts, couponVars, cartVars, edits, reqs>>

\* mutant: the restored quantity always goes to the product-level stock
RestoreStockIgnoringVariant(product, item) ==
  [product EXCEPT !.stock = @ + item.quantity, !.soldCount = @ - item.quantity]

\* "Restore product stock" of one line, then product.save()
RestoreStock(product, item) ==
  LET restored ==
        IF item.variant # NULL
        THEN IF item.variant \in DOMAIN product.variants
             THEN [product EXCEPT !.variants[item.variant].stock = @ + item.quantity]
             ELSE product
        ELSE [product EXCEPT !.stock = @ + item.quantity]
  IN [restored EXCEPT !.soldCount = @ - item.quantity]

RECURSIVE RestoreItems(_, _)
RestoreItems(items, prods) ==
  IF items = <<>> THEN prods
  ELSE LET item == Head(items)
       IN RestoreItems(Tail(items),
                       [prods EXCEPT ![item.product] = RestoreStock(prods[item.product], item)])

CanBeCancelled(order) == order.orderStatus \in Cancellable

CancelOrder(o, reason) ==
  LET order == orders[o]
  IN IF ~CanBeCancelled(order)
     THEN /\ resp' = [op |-> "cancelOrder", kind |-> "InvalidTransition", code |-> 400, order |-> o]
          /\ UNCHANGED <<products, orders, placed, attempts, couponVars, cartVars, edits, reqs>>
     ELSE /\ Len(order.statusHistory) < MaxHist
          /\ orders' = [orders EXCEPT ![o] = orderCancelOrder(order, reason)]
          /\ products' = RestoreItems(order.items, products)
          /\ resp' = [op |-> "cancelOrder", kind |-> "ok", code |-> 200, order |-> o]
          /\ UNCHANGED <<placed, attempts, couponVars, cartVars, edits, reqs>>

\* ------------------------------------------------------- paymentController
CreatePaymentIntent(o) ==
  /\ orders' = [orders EXCEPT ![o].stripePaymentIntentId = TRUE]
  /\ resp' = [op |-> "createPaymentIntent", kind |-> "ok", code |-> 200, order |-> o]
  /\ UNCHANGED <<products, placed, attempts, couponVars, cartVars, edits, reqs>>

\* the order is found by its payment intent id; succeeded is the gateway's answer
ConfirmPayment(o, succeeded) ==
  LET order == orders[o]
  IN /\ order.stripePaymentIntentId
     /\ IF succeeded
        THEN /\ Len(order.statusHistory) < MaxHist
             /\ orders' = [orders EXCEPT ![o] =
                   preSave(order, [order EXCEPT !.paymentStatus = "paid",
                                                !.orderStatus = "confirmed"])]
             /\ resp' = [op |-> "confirmPayment", kind |-> "ok", code |-> 200, order |-> o]
        ELSE /\ UNCHANGED orders
             /\ resp' = [op |-> "confirmPayment", kind |-> "PaymentNotSucceeded", code |-> 400, order |-> o]
     /\ UNCHANGED <<products, placed, attempts, couponVars, cartVars, edits, reqs>>

CreateMobilePayment(o) ==
  /\ orders' = [orders EXCEPT ![o].momoTransactionId = TRUE, ![o].paymentStatus = "pending"]
  /\ resp' = [op |-> "createMobilePayment", kind |-> "ok", code |-> 200, order |-> o]
  /\ UNCHANGED <<products, placed, attempts, couponVars, cartVars, edits, reqs>>

\* the order is found by its mobile-money transaction id
VerifyMobilePayment(o) ==
  LET order == orders[o]
  IN /\ order.momoTransactionId
     /\ Len(order.statusHistory) < MaxHist
     /\ orders' = [orders EXCEPT ![o] =
           preSave(order, [order EXCEPT !.paymentStatus = "paid",
                                        !.orderStatus = "confirmed"])]
     /\ resp' = [op |-> "verifyMobilePayment", kind |-> "ok", code |-> 200, order |-> o]
     /\ UNCHANGED <<products, placed, attempts, couponVars, cartVars, edits, reqs>>

Reasons == {"changed my mind"}

\* ------------------------------------------------------------ Coupon model
\* mutant: the usage limit is not looked at
isActiveNowIgnoringUsage(coupon, t) ==
  /\ coupon.isActive
  /\ t >= coupon.startDate
  /\ t <= coupon.endDate

\* couponSchema.virtual('isActiveNow')
isActiveNow(coupon, t) ==
  /\ coupon.isActive
  /\ t >= coupon.startDate
  /\ t <= coupon.endDate
  /\ (coupon.usageLimit = None \/ coupon.usedCount < Val(coupon.usageLimit))

\* couponSchema.methods.isValid
isValid(coupon, t) == isActiveNow(coupon, t)

\* mutant: the percentage is not capped by maxDiscount
calculateDiscountUncapped(coupon, totalAmount, t) ==
  IF totalAmount < coupon.minPurchase
  THEN [kind |-> "BelowMinimumPurchase", discount |-> 0]
  ELSE IF ~isValid(coupon, t)
  THEN [kind |-> "CouponNotValid", discount |-> 0]
  ELSE [kind |-> "ok",
        discount |-> Min(IF coupon.discountType = "percentage"
                         THEN (totalAmount * coupon.discountValue) \div 100
                         ELSE coupon.discountValue,
                         totalAmount)]

\* mutant: maxDiscount caps a fixed discount too
calculateDiscountCapsFixed(coupon, totalAmount, t) ==
  IF totalAmount < coupon.minPurchase
  THEN [kind |-> "BelowMinimumPurchase", discount |-> 0]
  ELSE IF ~isValid(coupon, t)
  THEN [kind |-> "CouponNotValid", discount |-> 0]
  ELSE
    LET raw == IF coupon.discountType = "percentage"
               THEN (totalAmount * coupon.discountValue) \div 100
               ELSE coupon.discountValue
        discount == IF coupon.maxDiscount # None /\ Val(coupon.maxDiscount) # 0
                       /\ raw > Val(coupon.maxDiscount)
                    THEN Val(coupon.maxDiscount) ELSE raw
    IN [kind |-> "ok", discount |-> Min(discount, totalAmount)]

\* couponSchema.methods.calculateDiscount; a thrown Error is the kind of the
\* result. this.maxDiscount && ... is false for null and for 0
calculateDiscount(coupon, totalAmount, t) ==
  IF totalAmount < coupon.minPurchase
  THEN [kind |-> "BelowMinimumPurchase", discount |-> 0]
  ELSE IF ~isValid(coupon, t)
  THEN [kind |-> "CouponNotValid", discount |-> 0]
  ELSE
    LET percentage == (totalAmount * coupon.discountValue) \div 100
        discount ==
          IF coupon.discountType = "percentage"
          THEN IF coupon.maxDiscount # None /\ Val(coupon.maxDiscount) # 0
                  /\ percentage > Val(coupon.maxDiscount)
               THEN Val(coupon.maxDiscount)
               ELSE percentage
          ELSE coupon.discountValue
    IN [kind |-> "ok", discount |-> Min(discount, totalAmount)]

\* mutant: one call counts two uses
incrementUsageTwice(coupon) == [coupon EXCEPT !.usedCount = @ + 2]

\* couponSchema.methods.incrementUsage
incrementUsage(coupon) == [coupon EXCEPT !.usedCount = @ + 1]

\* the couponSchema validators (min: 0 on discountValue and minPurchase, the
\* discountType enum) and createCouponValidation's date order
couponSchemaValid(coupon) ==
  /\ coupon.discountType \in {"percentage", "fixed"}
  /\ coupon.discountValue >= 0
  /\ coupon.minPurchase >= 0
  /\ coupon.endDate > coupon.startDate

\* ------------------------------------------------------- couponController
StoredCodes == {"SAVE"}

\* the request bodies of createCoupon: a percentage is a number, an amount is money
CouponBodies ==
  [discountType : {"percentage"}, discountValue : {20, 150},
   minPurchase : {0, Cur(50)}, maxDiscount : {None, Some(0), Some(Cur(30)), Some(0 - Cur(5))},
   startDate : {1}, endDate : {2}, usageLimit : {None, Some(1)}]
  \cup
  [discountType : {"fixed"}, discountValue : {Cur(20), Cur(150)},
   minPurchase : {0, Cur(50)}, maxDiscount : {None, Some(0), Some(Cur(30)), Some(0 - Cur(5))},
   startDate : {1}, endDate : {2}, usageLimit : {None, Some(1)}]

Amounts == {0 - Cur(5), 0, Cur(15), Cur(200)}

CouponResp(op, code, totalAmount, kind, discount) ==
  [op |-> op, code |-> code, totalAmount |-> totalAmount, kind |-> kind, discount |-> discount]

CreateCoupon(code, body) ==
  LET coupon == [discountType |-> body.discountType, discountValue |-> body.discountValue,
                 minPurchase |-> body.minPurchase, maxDiscount |-> body.maxDiscount,
                 startDate |-> body.startDate, endDate |-> body.endDate,
                 usageLimit |-> body.usageLimit, usedCount |-> 0, isActive |-> TRUE]
  IN /\ IF code \in DOMAIN coupons
        THEN /\ UNCHANGED coupons
             /\ cresp' = CouponResp("createCoupon", code, 0, "DuplicateKey", 0)
        ELSE IF ~couponSchemaValid(coupon)
        THEN /\ UNCHANGED coupons
             /\ cresp' = CouponResp("createCoupon", code, 0, "ValidationFailed", 0)
        ELSE /\ coupons' = [c \in DOMAIN coupons \cup {code} |->
                              IF c = code THEN coupon ELSE coupons[c]]
             /\ cresp' = CouponResp("createCoupon", code, 0, "ok", 0)
     /\ UNCHANGED <<now, orderVars, cartVars, edits, reqs>>

\* updateCoupon: findByIdAndUpdate with the body's fields, validators on
UpdateBodies == [isActive : BOOLEAN] \cup [usedCount : {0}]

UpdateCoupon(code, body) ==
  LET coupon == coupons[code]
      updated == [f \in DOMAIN coupon |-> IF f \in DOMAIN body THEN body[f] ELSE coupon[f]]
  IN /\ code \in DOMAIN coupons
     /\ IF couponSchemaValid(updated)
        THEN /\ coupons' = [coupons EXCEPT ![code] = updated]
             /\ cresp' = CouponResp("updateCoupon", code, 0, "ok", 0)
        ELSE /\ UNCHANGED coupons
             /\ cresp' = CouponResp("updateCoupon", code, 0, "ValidationFailed", 0)
     /\ UNCHANGED <<now, orderVars, cartVars, edits, reqs>>

\* coupon.calculateDiscount(totalAmount) on a stored coupon
CalculateDiscount(code, totalAmount) ==
  LET r == calculateDiscount(coupons[code], totalAmount, now)
  IN /\ code \in DOMAIN coupons
     /\ cresp' = CouponResp("calculateDiscount", code, totalAmount, r.kind, r.discount)
     /\ UNCHANGED <<coupons, now, orderVars, cartVars, edits, reqs>>

\* coupon.incrementUsage() on a stored coupon
IncrementUsage(code) ==
  /\ code \in DOMAIN coupons
  /\ coupons[code].usedCount < MaxUses
  /\ coupons' = [coupons EXCEPT ![code] = incrementUsage(@)]
  /\ cresp' = CouponResp("incrementUsage", code, 0, "ok", 0)
  /\ UNCHANGED <<now, orderVars, cartVars, edits, reqs>>

\* validateCoupon: looks the coupon up among the active ones, checks it and
\* computes the discount; nothing is saved
ValidateCoupon(code, totalAmount) ==
  /\ cresp' =
       IF code \notin DOMAIN coupons \/ ~coupons[code].isActive
       THEN CouponResp("validateCoupon", code, totalAmount, "NotFound", 0)
       ELSE IF ~isValid(coupons[code], now)
       THEN CouponResp("validateCoupon", code, totalAmount, "CouponNotValid", 0)
       ELSE IF totalAmount < coupons[code].minPurchase
       THEN CouponResp("validateCoupon", code, totalAmount, "BelowMinimumPurchase", 0)
       ELSE LET r == calculateDiscount(coupons[code], totalAmount, now)
            IN CouponResp("validateCoupon", code, totalAmount, r.kind, r.discount)
  /\ UNCHANGED <<coupons, now, orderVars, cartVars, edits, reqs>>

\* getCouponByCode: the coupon with that code, if it is active now
GetCouponByCode(code) ==
  /\ cresp' =
       IF code \notin DOMAIN coupons
       THEN CouponResp("getCouponByCode", code, 0, "NotFound", 0)
       ELSE IF ~isActiveNow(coupons[code], now)
       THEN CouponResp("getCouponByCode", code, 0, "CouponNotValid", 0)
       ELSE CouponResp("getCouponByCode", code, 0, "ok", 0)
  /\ UNCHANGED <<coupons, now, orderVars, cartVars, edits, reqs>>

\* the filter of getActiveCoupons' find
activeCouponsFilter(coupon, t) ==
  /\ coupon.isActive
  /\ coupon.startDate <= t
  /\ coupon.endDate >= t
  /\ (coupon.usageLimit = None \/ Val(coupon.usageLimit) > 0)

\* getActiveCoupons: the codes of the coupons the filter selects
GetActiveCoupons ==
  /\ cresp' = [op |-> "getActiveCoupons", code |-> NULL, totalAmount |-> 0,
               kind |-> "ok", discount |-> 0,
               data |-> {c \in DOMAIN coupons : activeCouponsFilter(coupons[c], now)}]
  /\ UNCHANGED <<coupons, now, orderVars, cartVars, edits, reqs>>

\* time passes
Tick ==
  /\ now < MaxTime
  /\ now' = now + 1
  /\ cresp' = CouponResp("tick", NULL, 0, "ok", 0)
  /\ UNCHANGED <<coupons, orderVars, cartVars, edits, reqs>>

NextCoupon ==
  \/ \E code \in StoredCodes, body \in CouponBodies : CreateCoupon(code, body)
  \/ \E code \in StoredCodes, body \in UpdateBodies : UpdateCoupon(code, body)
  \/ \E code \in StoredCodes, totalAmount \in Amounts : CalculateDiscount(code, totalAmount)
  \/ \E code \in StoredCodes : IncrementUsage(code)
  \/ \E code \in StoredCodes, totalAmount \in Amounts : ValidateCoupon(code, totalAmount)
  \/ \E code \in StoredCodes : GetCouponByCode(code)
  \/ GetActiveCoupons
  \/ Tick

SpecCoupon == Init /\ [][NextCoupon]_vars

\* ------------------------------------------------------- productController
\* the productSchema validators of the fields a request can write
productSchemaValid(product) ==
  /\ product.price >= 0
  /\ product.stock >= 0

\* the request bodies of updateProduct
ProductUpdates ==
  {[price |-> Cur(40)], [price |-> 0 - Cur(1)], [isOnSale |-> FALSE], [stock |-> 1]}

\* "Recalculate total stock if variants exist"
RECURSIVE SumVariantStock(_, _)
SumVariantStock(variants, skus) ==
  IF skus = {} THEN 0
  ELSE LET sku == CHOOSE x \in skus : TRUE
       IN variants[sku].stock + SumVariantStock(variants, skus \ {sku})

\* updateProduct: findByIdAndUpdate with the body's fields, validators on, then
\* the aggregate stock is recomputed from the variants and saved
UpdateProduct(p, body) ==
  LET product == products[p]
      updated == [f \in DOMAIN product |-> IF f \in DOMAIN body THEN body[f] ELSE product[f]]
      recalculated ==
        IF DOMAIN updated.variants # {}
        THEN [updated EXCEPT !.stock = SumVariantStock(updated.variants, DOMAIN updated.variants)]
        ELSE updated
  IN /\ edits < MaxEdits
     /\ edits' = edits + 1
     /\ IF productSchemaValid(updated)
        THEN /\ products' = [products EXCEPT ![p] = recalculated]
             /\ resp' = [op |-> "updateProduct", kind |-> "ok", code |-> 200, order |-> 0]
        ELSE /\ UNCHANGED products
             /\ resp' = [op |-> "updateProduct", kind |-> "ServerError", code |-> 500, order |-> 0]
     /\ UNCHANGED <<orders, placed, attempts, couponVars, cartVars, reqs>>

\* deleteProduct: "Soft delete - mark as inactive"
DeleteProduct(p) ==
  /\ edits < MaxEdits
  /\ edits' = edits + 1
  /\ products' = [products EXCEPT ![p].isActive = FALSE]
  /\ resp' = [op |-> "deleteProduct", kind |-> "ok", code |-> 200, order |-> 0]
  /\ UNCHANGED <<orders, placed, attempts, couponVars, cartVars, reqs>>

StockOperations == {"add", "subtract", "set"}

StockQuantities == {1, 0 - 1}

\* mutant: subtract stores the difference as it is
UpdateStockUnclamped(p, operation, quantity) ==
  LET product == products[p]
      stock ==
        IF operation = "add" THEN product.stock + quantity
        ELSE IF operation = "subtract" THEN product.stock - quantity
        ELSE quantity
      updated == [product EXCEPT !.stock = stock]
  IN /\ edits < MaxEdits
     /\ edits' = edits + 1
     /\ IF productSchemaValid(updated)
        THEN /\ products' = [products EXCEPT ![p] = updated]
             /\ resp' = [op |-> "updateStock", kind |-> "ok", code |-> 200, order |-> 0]
        ELSE /\ UNCHANGED products
             /\ resp' = [op |-> "updateStock", kind |-> "ServerError", code |-> 500, order |-> 0]
     /\ UNCHANGED <<orders, placed, attempts, couponVars, cartVars, reqs>>

\* updateStock: the operation on product.stock, then product.save() with the
\* schema's min: 0 on stock
UpdateStock(p, operation, quantity) ==
  LET product == products[p]
      stock ==
        IF operation = "add" THEN product.stock + quantity
        ELSE IF operation = "subtract"
        THEN (IF product.stock - quantity < 0 THEN 0 ELSE product.stock - quantity)
        ELSE quantity
      updated == [product EXCEPT !.stock = stock]
  IN /\ edits < MaxEdits
     /\ edits' = edits + 1
     /\ IF productSchemaValid(updated)
        THEN /\ products' = [products EXCEPT ![p] = updated]
             /\ resp' = [op |-> "updateStock", kind |-> "ok", code |-> 200, order |-> 0]
        ELSE /\ UNCHANGED products
             /\ resp' = [op |-> "updateStock", kind |-> "ServerError", code |-> 500, order |-> 0]
     /\ UNCHANGED <<orders, placed, attempts, couponVars, cartVars, reqs>>

\* ---------------------------------------------------------- cartController
\* populate('items.product', 'name slug price images stock sku variants'): the
\* populated product holds the selected paths only
PopulatedPaths == {"price", "stock", "sku", "variants"}

Populate(product) == [f \in PopulatedPaths |-> product[f]]

\* a boolean path of a document; a path the query did not select is undefined
IsTrue(doc, path) == path \in DOMAIN doc /\ doc[path]

\* a number path of a document is truthy when selected and not 0
IsSet(doc, path) == path \in DOMAIN doc /\ doc[path] # 0

\* mutant: no line is skipped and each read adds the line total to the cached one
getCartItemsAccumulating(items, prods) ==
  [items |-> [i \in 1..Len(items) |->
                [items[i] EXCEPT !.total = @ + items[i].price * items[i].quantity]],
   subtotal |-> 0, totalItems |-> 0]

\* mutant: a line that the loop skips is taken out of the cart that is saved
getCartItemsDroppingSkipped(items, prods) ==
  [items |-> SelectSeq(items, LAMBDA item :
                                IsTrue(Populate(prods[item.product]), "isActive")),
   subtotal |-> 0, totalItems |-> 0]

\* the for-loop of getCart over the cart's items: the items as they are saved,
\* the subtotal and the number of units
RECURSIVE getCartItems(_, _)
getCartItems(items, prods) ==
  IF items = <<>>
  THEN [items |-> <<>>, subtotal |-> 0, totalItems |-> 0]
  ELSE
    LET item == Head(items)
        product == Populate(prods[item.product])
        rest == getCartItems(Tail(items), prods)
    IN IF ~IsTrue(product, "isActive")
       THEN [rest EXCEPT !.items = <<item>> \o @]
       ELSE
         LET found == /\ item.variant # NULL
                      /\ DOMAIN product.variants # {}
                      /\ item.variant \in DOMAIN product.variants
             availableStock ==
               IF found THEN product.variants[item.variant].stock ELSE product.stock
             variantPrice ==
               IF found THEN product.variants[item.variant].price ELSE product.price
             current ==
               IF IsTrue(product, "isOnSale") /\ IsSet(product, "salePrice")
               THEN product.salePrice ELSE variantPrice
             quantity == Min(item.quantity, availableStock)
             itemTotal == current * quantity
         IN [items |-> <<[item EXCEPT !.price = current, !.total = itemTotal,
                                      !.inStock = quantity > 0]>> \o rest.items,
             subtotal |-> itemTotal + rest.subtotal,
             totalItems |-> quantity + rest.totalItems]

\* "Calculate totals" of getCart
cartSummary(subtotal, totalItems) ==
  LET shipping == IF subtotal > Cur(FreeShippingOver) THEN 0 ELSE Cur(ShippingFlatFee)
      tax == (subtotal * TaxPercent) \div 100
  IN [subtotal |-> subtotal, shipping |-> shipping, tax |-> tax,
      total |-> subtotal + shipping + tax, totalItems |-> totalItems]

GetCart ==
  LET r == getCartItems(cart, products)
  IN /\ cart' = r.items
     /\ summary' = cartSummary(r.subtotal, r.totalItems)
     /\ resp' = [op |-> "getCart", kind |-> "ok", code |-> 200, order |-> 0]
     /\ UNCHANGED <<products, orders, placed, attempts, couponVars, edits, reqs>>

\* the cartItemSchema validators run by cart.save()
cartSchemaValid(items) ==
  \A i \in 1..Len(items) :
    /\ items[i].quantity >= 1
    /\ items[i].price >= 0
    /\ items[i].total >= 0

\* "Check if item already exists": the index of the first line with the same
\* product and the same variant sku, or without variant on both sides; 0 if none
existingItemIndex(items, productId, variant) ==
  LET matches == {i \in 1..Len(items) :
                    /\ items[i].product = productId
                    /\ IF variant # NULL /\ items[i].variant # NULL
                       THEN items[i].variant = variant
                       ELSE variant = NULL /\ items[i].variant = NULL}
  IN IF matches = {} THEN 0 ELSE CHOOSE i \in matches : \A j \in matches : i <= j

AddToCart(productId, quantity, variant) ==
  LET product == products[productId]
      sel == variant # NULL /\ DOMAIN product.variants # {}
      index == existingItemIndex(cart, productId, variant)
      answer(kind, code) == [op |-> "addToCart", kind |-> kind, code |-> code, order |-> 0]
  IN /\ UNCHANGED <<products, orders, placed, attempts, couponVars, summary, edits, reqs>>
     /\ IF ~product.isActive
        THEN /\ UNCHANGED cart
             /\ resp' = answer("NotFound", 404)
        ELSE IF sel /\ variant \notin DOMAIN product.variants
        THEN /\ UNCHANGED cart
             /\ resp' = answer("VariantNotFound", 400)
        ELSE
          LET availableStock == IF sel THEN product.variants[variant].stock ELSE product.stock
              variantPrice == IF sel THEN product.variants[variant].price ELSE product.price
              variantSku == IF sel THEN variant ELSE product.sku
              items ==
                IF index > 0
                THEN [cart EXCEPT ![index].quantity = @ + quantity]
                ELSE Append(cart, [product |-> productId,
                                   quantity |-> quantity,
                                   variant |-> IF variant # NULL THEN variantSku ELSE NULL,
                                   price |-> variantPrice,
                                   total |-> variantPrice * quantity,
                                   inStock |-> TRUE])
          IN IF availableStock < quantity
             THEN /\ UNCHANGED cart
                  /\ resp' = answer("InsufficientStock", 400)
             ELSE IF index > 0 /\ cart[index].quantity + quantity > availableStock
             THEN /\ UNCHANGED cart
                  /\ resp' = answer("InsufficientStock", 400)
             ELSE IF ~cartSchemaValid(items)
             THEN /\ UNCHANGED cart
                  /\ resp' = answer("ServerError", 500)
             ELSE /\ Len(items) <= MaxCart
                  /\ cart' = items
                  /\ resp' = answer("ok", 200)

\* cartItem.remove(): the cart's items without the line at index
remove(items, index) ==
  SubSeq(items, 1, index - 1) \o SubSeq(items, index + 1, Len(items))

\* the item ids a request names: the lines of the cart and one id no line has
ItemIds == 1..(MaxCart + 1)

UpdateCartItem(itemId, quantity) ==
  LET answer(kind, code) ==
        [op |-> "updateCartItem", kind |-> kind, code |-> code, order |-> 0]
  IN /\ UNCHANGED <<products, orders, placed, attempts, couponVars, summary, edits, reqs>>
     /\ IF itemId > Len(cart)
        THEN /\ UNCHANGED cart
             /\ resp' = answer("NotFound", 404)
        ELSE
          LET cartItem == cart[itemId]
              product == products[cartItem.product]
              found == /\ cartItem.variant # NULL
                       /\ DOMAIN product.variants # {}
                       /\ cartItem.variant \in DOMAIN product.variants
              availableStock ==
                IF found THEN product.variants[cartItem.variant].stock ELSE product.stock
              items ==
                IF quantity < 1
                THEN remove(cart, itemId)
                ELSE [cart EXCEPT ![itemId].quantity = quantity,
                                  ![itemId].total = cartItem.price * quantity]
          IN IF ~product.isActive
             THEN /\ cart' = IF cartSchemaValid(remove(cart, itemId))
                             THEN remove(cart, itemId) ELSE cart
                  /\ resp' = IF cartSchemaValid(remove(cart, itemId))
                             THEN answer("Unavailable", 400)
                             ELSE answer("ServerError", 500)
             ELSE IF quantity > availableStock
             THEN /\ UNCHANGED cart
                  /\ resp' = answer("InsufficientStock", 400)
             ELSE IF ~cartSchemaValid(items)
             THEN /\ UNCHANGED cart
                  /\ resp' = answer("ServerError", 500)
             ELSE /\ cart' = items
                  /\ resp' = answer("ok", 200)

RemoveFromCart(itemId) ==
  LET answer(kind, code) ==
        [op |-> "removeFromCart", kind |-> kind, code |-> code, order |-> 0]
  IN /\ UNCHANGED <<products, orders, placed, attempts, couponVars, summary, edits, reqs>>
     /\ IF itemId > Len(cart)
        THEN /\ UNCHANGED cart
             /\ resp' = answer("NotFound", 404)
        ELSE IF ~cartSchemaValid(remove(cart, itemId))
        THEN /\ UNCHANGED cart
             /\ resp' = answer("ServerError", 500)
        ELSE /\ cart' = remove(cart, itemId)
             /\ resp' = answer("ok", 200)

\* --------------------------------------- createOrder, one database call at a time
\* mutant: the save applies the line's decrement to the stored counters
SaveAsDecrement(stored, local, item) == ReduceStock(stored, item)

\* the paths of the product document that one line's createOrder modifies, as
\* product.save() writes them: the values of the request's own copy
SaveModified(stored, local, item) ==
  LET counted == [stored EXCEPT !.soldCount = local.soldCount]
  IN IF item.variant # NULL
     THEN IF item.variant \in DOMAIN stored.variants
          THEN [counted EXCEPT !.variants[item.variant].stock =
                                  local.variants[item.variant].stock]
          ELSE counted
     ELSE [counted EXCEPT !.stock = local.stock]

\* Product.findById resolves; the checks and the reduction of the request's
\* copy run up to the await of product.save()
FindProduct(r, item) ==
  LET found == ProcessItems(<<item>>, products, <<>>, 0)
  IN /\ reqs[r].pc = "idle"
     /\ attempts' = attempts + 1
     /\ IF found.kind # "ok"
        THEN /\ reqs' = [reqs EXCEPT ![r] = [pc |-> "done", item |-> item]]
             /\ resp' = [op |-> "createOrder", kind |-> found.kind, code |-> found.code, order |-> 0]
        ELSE /\ reqs' = [reqs EXCEPT ![r] =
                  [pc |-> "saving", item |-> item,
                   seen |-> products[item.product],
                   local |-> found.products[item.product],
                   orderItems |-> found.orderItems, itemsPrice |-> found.itemsPrice]]
             /\ UNCHANGED resp
     /\ UNCHANGED <<products, orders, placed, couponVars, cartVars, edits>>

\* product.save() resolves
SaveProduct(r) ==
  LET q == reqs[r]
  IN /\ q.pc = "saving"
     /\ products' = [products EXCEPT ![q.item.product] = SaveModified(@, q.local, q.item)]
     /\ reqs' = [reqs EXCEPT ![r].pc = "creating"]
     /\ UNCHANGED <<orders, placed, attempts, resp, couponVars, cartVars, edits>>

\* Order.create resolves, then the confirmation email and the response
StoreOrder(r, couponCode, suffix) ==
  LET q == reqs[r]
      id == Len(orders) + 1
      order == NewOrder(q.orderItems, q.itemsPrice, couponCode, suffix)
  IN /\ q.pc = "creating"
     /\ IF NumberTaken(suffix) \/ ~orderSchemaValid(order)
        THEN /\ UNCHANGED <<orders, placed>>
             /\ reqs' = [reqs EXCEPT ![r].pc = "done"]
             /\ resp' = [op |-> "createOrder", kind |-> "ServerError", code |-> 500, order |-> 0]
        ELSE /\ orders' = Append(orders, order)
             /\ placed' = Append(placed, [before |-> [products EXCEPT ![q.item.product] = q.seen],
                                          after |-> products])
             /\ reqs' = [reqs EXCEPT ![r].pc = "stored"]
             /\ resp' = IF sendOrderConfirmationEmail(order) = "throws"
                        THEN [op |-> "createOrder", kind |-> "ServerError", code |-> 500, order |-> id]
                        ELSE [op |-> "createOrder", kind |-> "ok", code |-> 201, order |-> id]
     /\ UNCHANGED <<products, attempts, couponVars, cartVars, edits>>

\* Order placement and cancellation over the whole catalog, several orders
Next ==
  \/ \E items \in Requests, couponCode \in CouponCodes, suffix \in Suffixes :
       CreateOrder(items, couponCode, suffix)
  \/ \E o \in 1..Len(orders), reason \in Reasons : CancelOrder(o, reason)

Spec == Init /\ [][Next]_vars

\* The lifetime of one order under every handler that writes an order. Each of
\* these handlers reads and writes the one order document it is given.
NextLifecycle ==
  \/ /\ orders = <<>>
     /\ \E items \in {r \in Requests : Len(r) = 1}, couponCode \in CouponCodes,
           suffix \in Suffixes :
          CreateOrder(items, couponCode, suffix)
  \/ \E o \in 1..Len(orders), status \in OrderStatuses : UpdateOrderStatus(o, status)
  \/ \E o \in 1..Len(orders), reason \in Reasons : CancelOrder(o, reason)
  \/ \E o \in 1..Len(orders) : CreatePaymentIntent(o)
  \/ \E o \in 1..Len(orders), succeeded \in BOOLEAN : ConfirmPayment(o, succeeded)
  \/ \E o \in 1..Len(orders) : CreateMobilePayment(o)
  \/ \E o \in 1..Len(orders) : VerifyMobilePayment(o)

SpecLifecycle == Init /\ [][NextLifecycle]_vars

\* The catalog of the end-to-end scenario: a product of price 100 with 5 in stock
ScenarioProducts ==
  [InitProducts EXCEPT !["p1"].price = Cur(100), !["p1"].stock = 5]

InitScenario ==
  /\ products = ScenarioProducts
  /\ orders = <<>>
  /\ placed = <<>>
  /\ attempts = 0
  /\ resp = [op |-> "none", kind |-> "ok", code |-> 0, order |-> 0]
  /\ coupons = [c \in {} |-> NULL]
  /\ now = 0
  /\ cresp = [op |-> "none", code |-> NULL, totalAmount |-> 0, kind |-> "ok", discount |-> 0]
  /\ cart = <<>>
  /\ summary = [subtotal |-> 0, shipping |-> 0, tax |-> 0, total |-> 0, totalItems |-> 0]
  /\ edits = 0
  /\ reqs = [r \in RequestIds |-> [pc |-> "idle"]]

\* the scenario's requests: lines without variant, and one unit of a variant
ScenarioLines ==
  {l \in Lines : l.variant = NULL} \cup {[product |-> "p2", variant |-> "V1", quantity |-> 1]}

ScenarioRequests == {<<a>> : a \in ScenarioLines} \cup {<<a, b>> : a, b \in ScenarioLines}

NextScenario ==
  \/ \E items \in ScenarioRequests, couponCode \in CouponCodes, suffix \in Suffixes :
       CreateOrder(items, couponCode, suffix)
  \/ \E o \in 1..Len(orders), reason \in Reasons : CancelOrder(o, reason)

SpecScenario == InitScenario /\ [][NextScenario]_vars

\* The cart of one user under addToCart and getCart, with admin edits of the
\* catalog in between
NextCart ==
  \/ \E productId \in ProductIds, quantity \in 1..MaxQty, variant \in VariantSelectors :
       AddToCart(productId, quantity, variant)
  \/ GetCart
  \/ \E p \in ProductIds : DeleteProduct(p)
  \/ \E p \in ProductIds, operation \in StockOperations, quantity \in StockQuantities :
       UpdateStock(p, operation, quantity)

SpecCart == Init /\ [][NextCart]_vars

\* The lines of one user's cart under addToCart, updateCartItem and
\* removeFromCart, with products taken out of the catalog in between
NextCartLines ==
  \/ \E productId \in ProductIds, quantity \in 1..MaxQty, variant \in VariantSelectors :
       AddToCart(productId, quantity, variant)
  \/ \E itemId \in ItemIds, quantity \in 0..MaxQty : UpdateCartItem(itemId, quantity)
  \/ \E itemId \in ItemIds : RemoveFromCart(itemId)
  \/ \E p \in ProductIds : DeleteProduct(p)

SpecCartLines == Init /\ [][NextCartLines]_vars

\* One stored order under every handler that runs after its createOrder: the
\* admin's catalog edits and the handlers that write the order
SnapshotRequests == {<<a>> : a \in {l \in Lines : l.quantity = 1}}

SnapshotStatuses == {"shipped", "cancelled"}

NextSnapshot ==
  \/ /\ orders = <<>>
     /\ \E items \in SnapshotRequests, couponCode \in CouponCodes, suffix \in {1000} :
          CreateOrder(items, couponCode, suffix)
  \/ \E o \in 1..Len(orders), p \in ProductIds, body \in ProductUpdates :
       UpdateProduct(p, body)
  \/ \E o \in 1..Len(orders), p \in ProductIds : DeleteProduct(p)
  \/ \E o \in 1..Len(orders), p \in ProductIds, operation \in StockOperations,
        quantity \in StockQuantities :
       UpdateStock(p, operation, quantity)
  \/ \E o \in 1..Len(orders), status \in SnapshotStatuses : UpdateOrderStatus(o, status)
  \/ \E o \in 1..Len(orders), reason \in Reasons : CancelOrder(o, reason)
  \/ \E o \in 1..Len(orders) : CreatePaymentIntent(o)
  \/ \E o \in 1..Len(orders), succeeded \in BOOLEAN : ConfirmPayment(o, succeeded)
  \/ \E o \in 1..Len(orders) : CreateMobilePayment(o)
  \/ \E o \in 1..Len(orders) : VerifyMobilePayment(o)

SpecSnapshot == Init /\ [][NextSnapshot]_vars

\* Two createOrder requests of one line each, interleaved at their awaits
NextRace ==
  \/ \E r \in RequestIds, item \in Lines : FindProduct(r, item)
  \/ \E r \in RequestIds : SaveProduct(r)
  \/ \E r \in RequestIds, couponCode \in CouponCodes, suffix \in Suffixes :
       StoreOrder(r, couponCode, suffix)

SpecRace == Init /\ [][NextRace]_vars

\* Two createOrder requests one database call at a time, with cancelOrder and
\* the admin's updateStock in between
StockLines ==
  {item \in Lines :
     item.variant \in {NULL} \cup DOMAIN InitProducts[item.product].variants}

NextStock ==
  \/ \E r \in RequestIds, item \in StockLines : FindProduct(r, item)
  \/ \E r \in RequestIds : SaveProduct(r)
  \/ \E r \in RequestIds : StoreOrder(r, NULL, r)
  \/ \E o \in 1..Len(orders), reason \in Reasons : CancelOrder(o, reason)
  \/ \E p \in ProductIds, operation \in StockOperations, quantity \in StockQuantities :
       UpdateStock(p, operation, quantity)

SpecStock == Init /\ [][NextStock]_vars

\* ================================================================ claims

\* the counters an order line moves: product stock, variant stocks, soldCount
StockCounters(product) ==
  [stock |-> product.stock,
   soldCount |-> product.soldCount,
   variants |-> [s \in DOMAIN product.variants |-> product.variants[s].stock]]

LineProducts(order) == {order.items[i].product : i \in 1..Len(order.items)}

\* C1: a createOrder request refused with InsufficientStock leaves every
\* product's stock, variant stock and soldCount as they were before the request,
\* also for the lines that precede the failing line.
C1_AllOrNothing ==
  [][(resp'.op = "createOrder" /\ resp'.kind = "InsufficientStock")
       => \A p \in ProductIds : StockCounters(products'[p]) = StockCounters(products[p])]_vars

C3_CancelOnlyFromPendingOrConfirmed ==
  [][\A o \in 1..Len(orders) :
       /\ (orders'[o].orderStatus = "cancelled" /\ orders[o].orderStatus # "cancelled")
          => orders[o].orderStatus \in Cancellable
       /\ (resp'.kind = "InvalidTransition" /\ resp'.order = o)
          => (orders'[o].orderStatus = orders[o].orderStatus /\ products' = products)]_vars

LifecycleTransitions ==
  {<<"pending", "confirmed">>, <<"confirmed", "processing">>,
   <<"processing", "shipped">>, <<"shipped", "delivered">>,
   <<"pending", "cancelled">>, <<"confirmed", "cancelled">>}

\* C4: every change of an order's orderStatus is a transition of the lifecycle
\* pending -> confirmed -> processing -> shipped -> delivered or
\* pending|confirmed -> cancelled.
C4_OnlyLifecycleTransitions ==
  [][\A o \in 1..Len(orders) :
       orders'[o].orderStatus # orders[o].orderStatus
       => <<orders[o].orderStatus, orders'[o].orderStatus>> \in LifecycleTransitions]_vars

\* C5: every step that changes an order's orderStatus appends exactly one entry
\* to its status history, holding the new status; a step that leaves the status
\* alone leaves the history alone; cancelOrder on an order that is neither
\* pending nor confirmed answers InvalidTransition and changes nothing of the
\* order.
C5_HistoryGrowsByOnePerTransition ==
  [][\A o \in 1..Len(orders) :
       LET old == orders[o]
           new == orders'[o]
       IN /\ new.orderStatus # old.orderStatus
             => /\ Len(new.statusHistory) = Len(old.statusHistory) + 1
                /\ SubSeq(new.statusHistory, 1, Len(old.statusHistory)) = old.statusHistory
                /\ new.statusHistory[Len(new.statusHistory)].status = new.orderStatus
          /\ new.orderStatus = old.orderStatus => new.statusHistory = old.statusHistory
          /\ (resp'.op = "cancelOrder" /\ resp'.order = o /\ old.orderStatus \notin Cancellable)
             => (resp'.kind = "InvalidTransition" /\ new = old)]_vars

\* a confirmed order has been cancelled: two transitions, two entries
C5_Witness ==
  \E o \in 1..Len(orders) :
    /\ resp = [op |-> "cancelOrder", kind |-> "ok", code |-> 200, order |-> o]
    /\ Len(orders[o].statusHistory) = 2
    /\ orders[o].statusHistory[1].status = "confirmed"
    /\ orders[o].statusHistory[2].status = "cancelled"

DiscountOf(order) == IF order.coupon = None THEN 0 ELSE Val(order.coupon).discount

\* C6: every stored order has totalPrice = itemsPrice + shippingPrice +
\* taxPrice - coupon.discount (0 without coupon), and totalPrice >= 0.
C6_TotalPriceIdentity ==
  \A o \in 1..Len(orders) :
    LET order == orders[o]
    IN /\ order.totalPrice =
            order.itemsPrice + order.shippingPrice + order.taxPrice - DiscountOf(order)
       /\ order.totalPrice >= 0

\* a stored two-line order with a coupon, a discount and a shipping charge
C6_Witness ==
  \E o \in 1..Len(orders) :
    /\ Len(orders[o].items) = 2
    /\ orders[o].coupon # None
    /\ DiscountOf(orders[o]) > 0
    /\ orders[o].shippingPrice > 0
    /\ orders[o].taxPrice > 0

CalculatedFor(type) ==
  /\ cresp.op = "calculateDiscount"
  /\ cresp.kind = "ok"
  /\ coupons[cresp.code].discountType = type

PercentageOf(coupon, totalAmount) == (totalAmount * coupon.discountValue) \div 100

\* C7: every value d that calculateDiscount returns satisfies
\* 0 <= d <= totalAmount.
C7_DiscountWithinTotal ==
  (cresp.op = "calculateDiscount" /\ cresp.kind = "ok")
  => (0 <= cresp.discount /\ cresp.discount <= cresp.totalAmount)

\* C8 as stated: a percentage coupon yields totalAmount * discountValue / 100,
\* clamped to maxDiscount for every non-null maxDiscount, 0 included.
C8_PercentageClampedWheneverSet ==
  CalculatedFor("percentage")
  => LET coupon == coupons[cresp.code]
         percentage == PercentageOf(coupon, cresp.totalAmount)
     IN cresp.discount =
          IF coupon.maxDiscount # None
          THEN Min(percentage, Val(coupon.maxDiscount))
          ELSE percentage

\* C8 amended: a percentage coupon yields totalAmount * discountValue / 100,
\* clamped to maxDiscount when maxDiscount is neither null nor 0, and the
\* result is never more than totalAmount.
C8_PercentageClampedWhenNonZero ==
  CalculatedFor("percentage")
  => LET coupon == coupons[cresp.code]
         percentage == PercentageOf(coupon, cresp.totalAmount)
     IN cresp.discount =
          Min(cresp.totalAmount,
              IF coupon.maxDiscount \notin {None, Some(0)}
              THEN Min(percentage, Val(coupon.maxDiscount))
              ELSE percentage)

\* 20% of 200 with maxDiscount 30 gives 30
C8_Witness ==
  /\ CalculatedFor("percentage")
  /\ coupons[cresp.code].discountValue = 20
  /\ coupons[cresp.code].maxDiscount = Some(Cur(30))
  /\ cresp.totalAmount = Cur(200)
  /\ cresp.discount = Cur(30)

\* C9: a fixed coupon yields min(discountValue, totalAmount), whatever
\* maxDiscount is.
C9_FixedIsMinOfValueAndTotal ==
  CalculatedFor("fixed")
  => cresp.discount = Min(coupons[cresp.code].discountValue, cresp.totalAmount)

\* a fixed 20 on a total of 15 gives 15, with a maxDiscount set
C9_Witness ==
  /\ CalculatedFor("fixed")
  /\ coupons[cresp.code].discountValue = Cur(20)
  /\ coupons[cresp.code].maxDiscount # None
  /\ cresp.totalAmount = Cur(15)
  /\ cresp.discount = Cur(15)

OutsideWindow(coupon) == now < coupon.startDate \/ now > coupon.endDate

UsageExhausted(coupon) ==
  coupon.usageLimit # None /\ coupon.usedCount >= Val(coupon.usageLimit)

\* C10 as stated: outside the validity window or with the usage limit reached,
\* calculateDiscount fails with CouponNotValid for every totalAmount.
C10_InvalidAlwaysCouponNotValid ==
  (cresp.op = "calculateDiscount"
     /\ (OutsideWindow(coupons[cresp.code]) \/ UsageExhausted(coupons[cresp.code])))
  => cresp.kind = "CouponNotValid"

\* C10 amended: outside the validity window or with the usage limit reached,
\* calculateDiscount never returns a discount: it fails with
\* BelowMinimumPurchase when totalAmount < minPurchase and with CouponNotValid
\* otherwise.
C10_InvalidNeverDiscounts ==
  (cresp.op = "calculateDiscount"
     /\ (OutsideWindow(coupons[cresp.code]) \/ UsageExhausted(coupons[cresp.code])))
  => cresp.kind = IF cresp.totalAmount < coupons[cresp.code].minPurchase
                  THEN "BelowMinimumPurchase" ELSE "CouponNotValid"

\* inside its window, a coupon whose usage limit is reached is refused
C10_Witness ==
  /\ cresp.op = "calculateDiscount"
  /\ ~OutsideWindow(coupons[cresp.code])
  /\ coupons[cresp.code].isActive
  /\ UsageExhausted(coupons[cresp.code])
  /\ cresp.totalAmount >= coupons[cresp.code].minPurchase
  /\ cresp.kind = "CouponNotValid"

\* C11 as stated: in createOrder and in getCart, a subtotal of exactly the
\* free-shipping threshold 50 (or more) has shipping 0, a subtotal below it the
\* flat fee 10.
C11_FreeShippingAtThreshold ==
  /\ \A o \in 1..Len(orders) :
       orders[o].shippingPrice =
         IF orders[o].itemsPrice >= Cur(FreeShippingOver) THEN 0 ELSE Cur(ShippingFlatFee)
  /\ resp.op = "getCart"
     => summary.shipping =
          IF summary.subtotal >= Cur(FreeShippingOver) THEN 0 ELSE Cur(ShippingFlatFee)

\* C12: a getCart that directly follows a getCart returns the same summary and
\* leaves the stored cart as the first call left it.
C12_GetCartIdempotent ==
  [][(resp.op = "getCart" /\ resp'.op = "getCart")
       => (summary' = summary /\ cart' = cart)]_vars

\* getCart has answered for a cart of two lines, one of them of an active
\* product in stock
C12_Witness ==
  /\ resp.op = "getCart"
  /\ Len(cart) = 2
  /\ \E i \in 1..Len(cart) :
       products[cart[i].product].isActive /\ products[cart[i].product].stock > 0
  /\ summary.total = summary.subtotal + summary.shipping + summary.tax

RECURSIVE SumOfLines(_)
SumOfLines(items) ==
  IF items = <<>> THEN 0
  ELSE Head(items).price * Head(items).quantity + SumOfLines(Tail(items))

\* C13: an order stored by createOrder without coupon has itemsPrice = the sum
\* of unit price x quantity over its lines (the product's price for a line
\* without variant of a product not on sale), taxPrice = 8% of itemsPrice,
\* shippingPrice 0 above the threshold 50 and 10 below it, and totalPrice =
\* itemsPrice + shippingPrice + taxPrice.
C13_PricesOfOrderWithoutCoupon ==
  \A o \in 1..Len(orders) :
    LET order == orders[o]
    IN order.coupon = None
       => /\ order.itemsPrice = SumOfLines(order.items)
          /\ \A i \in 1..Len(order.items) :
               LET line == order.items[i]
                   product == placed[o].before[line.product]
               IN /\ line.total = line.price * line.quantity
                  /\ (line.variant = NULL /\ ~product.isOnSale) => line.price = product.price
          /\ order.taxPrice * 100 = order.itemsPrice * TaxPercent
          /\ order.shippingPrice \in {0, Cur(ShippingFlatFee)}
          /\ order.itemsPrice > Cur(FreeShippingOver) => order.shippingPrice = 0
          /\ order.itemsPrice < Cur(FreeShippingOver) => order.shippingPrice = Cur(ShippingFlatFee)
          /\ order.totalPrice = order.itemsPrice + order.shippingPrice + order.taxPrice

\* price 100, stock 5, 2 units, no coupon: itemsPrice 200, shipping 0, tax 16,
\* total 216, stock 3
C13_Witness ==
  \E o \in 1..Len(orders) :
    /\ Len(orders[o].items) = 1
    /\ orders[o].items[1].product = "p1"
    /\ orders[o].items[1].quantity = 2
    /\ placed[o].before["p1"].price = Cur(100)
    /\ placed[o].before["p1"].stock = 5
    /\ orders[o].coupon = None
    /\ orders[o].itemsPrice = Cur(200)
    /\ orders[o].shippingPrice = 0
    /\ orders[o].taxPrice = Cur(16)
    /\ orders[o].totalPrice = Cur(216)
    /\ products["p1"].stock = 3

\* the priced snapshot of an order
Snapshot(order) ==
  [items |-> order.items, itemsPrice |-> order.itemsPrice, taxPrice |-> order.taxPrice,
   shippingPrice |-> order.shippingPrice, totalPrice |-> order.totalPrice,
   coupon |-> order.coupon]

\* C14: no step changes the line items, itemsPrice, taxPrice, shippingPrice,
\* totalPrice or coupon of a stored order.
C14_SnapshotIsImmutable ==
  [][\A o \in 1..Len(orders) : Snapshot(orders'[o]) = Snapshot(orders[o])]_vars

\* the price of an ordered product has been changed after the order was
\* stored, and the order still holds the price it was placed at
C14_Witness ==
  /\ resp.op = "updateProduct"
  /\ resp.kind = "ok"
  /\ \E o \in 1..Len(orders) :
       /\ orders[o].items[1].product = "p1"
       /\ orders[o].items[1].price = Cur(30)
       /\ products["p1"].price = Cur(40)
       /\ orders[o].statusHistory # <<>>

\* C15 as stated: whenever createOrder has stored the order, it answers with
\* the created-order response 201, also when the notification fails.
C15_StoredOrderIsReportedCreated ==
  (resp.op = "createOrder" /\ resp.order > 0) => (resp.kind = "ok" /\ resp.code = 201)

\* the request has written its product
HasSaved(r) == "seen" \in DOMAIN reqs[r] /\ reqs[r].pc # "saving"

\* both requests order the product-level stock of one product and read the
\* same stock
ReadSameStock(r1, r2) ==
  /\ r1 # r2
  /\ "seen" \in DOMAIN reqs[r1] /\ "seen" \in DOMAIN reqs[r2]
  /\ reqs[r1].item.product = reqs[r2].item.product
  /\ reqs[r1].item.variant = NULL /\ reqs[r2].item.variant = NULL
  /\ reqs[r1].seen.stock = reqs[r2].seen.stock

\* C16: when two concurrent createOrder requests have read the same stock of
\* a product and both have written it, the stored stock is the stock read less
\* the quantity of one request only: the other decrement is lost.
C16_LostUpdate ==
  \A r1, r2 \in RequestIds :
    (ReadSameStock(r1, r2) /\ HasSaved(r1) /\ HasSaved(r2))
    => LET p == reqs[r1].item.product
       IN products[p].stock \in {reqs[r1].seen.stock - reqs[r1].item.quantity,
                                 reqs[r2].seen.stock - reqs[r2].item.quantity}

\* both requests passed the stock check on the same stock, both orders are
\* stored, and together they hold more units than the stock that was available
C16_Witness ==
  /\ ReadSameStock(1, 2)
  /\ reqs[1].pc = "stored" /\ reqs[2].pc = "stored"
  /\ Len(orders) = 2
  /\ orders[1].items[1].quantity + orders[2].items[1].quantity > reqs[1].seen.stock
  /\ products[reqs[1].item.product].stock >= 0

\* the units an order holds of product p on the counter v: a variant sku of the
\* product, or NULL for the product-level stock, which is also the counter of
\* a line whose variant the product does not have
RECURSIVE UnitsOn(_, _, _, _)
UnitsOn(items, p, v, variants) ==
  IF items = <<>> THEN 0
  ELSE LET line == Head(items)
           counter == IF line.variant \in variants THEN line.variant ELSE NULL
       IN (IF line.product = p /\ counter = v THEN line.quantity ELSE 0)
          + UnitsOn(Tail(items), p, v, variants)

RECURSIVE UnitsOf(_, _)
UnitsOf(items, p) ==
  IF items = <<>> THEN 0
  ELSE (IF Head(items).product = p THEN Head(items).quantity ELSE 0) + UnitsOf(Tail(items), p)

\* C17 as stated: a createOrder that stores an order lowers, for every line,
\* the matching stock counter by the line's quantity and raises the product's
\* soldCount by it, and leaves the counters of every other product alone.
C17_CreateMovesMatchingCounters ==
  \A o \in 1..Len(orders) : \A p \in ProductIds :
    LET before == placed[o].before[p]
        after == placed[o].after[p]
        skus == DOMAIN before.variants
    IN /\ after.stock = before.stock - UnitsOn(orders[o].items, p, NULL, skus)
       /\ \A v \in skus :
            after.variants[v].stock =
              before.variants[v].stock - UnitsOn(orders[o].items, p, v, skus)
       /\ after.soldCount = before.soldCount + UnitsOf(orders[o].items, p)

IsPrefix(s, t) == Len(s) <= Len(t) /\ SubSeq(t, 1, Len(s)) = s

\* C18: the status history of an order is append-only: in every step the
\* history before the step is a prefix of the history after it.
C18_HistoryIsAppendOnly ==
  [][\A o \in 1..Len(orders) :
       IsPrefix(orders[o].statusHistory, orders'[o].statusHistory)]_vars

\* an admin status write has appended a second entry behind the first
C18_Witness ==
  \E o \in 1..Len(orders) :
    /\ resp.op = "updateOrderStatus"
    /\ Len(orders[o].statusHistory) = 2
    /\ orders[o].statusHistory[1].status = "processing"
    /\ orders[o].statusHistory[2].status = "shipped"

\* the sale is running at time t: isOnSale, a sale price set, and t within the
\* sale window or no window set
SaleRunning(product, t) ==
  /\ product.isOnSale
  /\ product.salePrice # 0
  /\ product.saleStart = None \/ Val(product.saleStart) <= t
  /\ product.saleEnd = None \/ t <= Val(product.saleEnd)

\* C19 as stated: the unit price of an order line is the product's sale price
\* while the sale is running, also when a variant is selected; otherwise the
\* selected variant's price, or the product's price without variant.
C19_UnitPriceResolution ==
  \A o \in 1..Len(orders) : \A i \in 1..Len(orders[o].items) :
    LET line == orders[o].items[i]
        product == placed[o].before[line.product]
    IN line.price =
         IF SaleRunning(product, now) THEN product.salePrice
         ELSE IF line.variant \in DOMAIN product.variants
              THEN product.variants[line.variant].price
              ELSE product.price

\* the first line names a variant that its product does not have
FirstLineUnmatched(items) ==
  /\ items[1].variant # NULL
  /\ items[1].variant \notin DOMAIN products[items[1].product].variants

\* C20 as stated: a createOrder whose line supplies a variant selector that no
\* variant of the product matches, also a product without variants, fails with
\* VariantNotFound, stores no order and changes no product.
C20_UnmatchedVariantIsRefused ==
  [][\A items \in Requests, couponCode \in CouponCodes, suffix \in Suffixes :
       (FirstLineUnmatched(items) /\ CreateOrder(items, couponCode, suffix))
       => (resp'.kind = "VariantNotFound" /\ products' = products /\ orders' = orders)]_vars

\* the unit price of a cart line read from the whole product document: the sale
\* price of a product on sale, else the chosen variant's price, else the price
LineUnitPrice(product, variant) ==
  IF product.isOnSale /\ product.salePrice # 0 THEN product.salePrice
  ELSE IF variant # NULL /\ variant \in DOMAIN product.variants
       THEN product.variants[variant].price
       ELSE product.price

\* the stock a cart line draws on: the chosen variant's, else the product's
LineAvailableStock(product, variant) ==
  IF variant # NULL /\ variant \in DOMAIN product.variants
  THEN product.variants[variant].stock
  ELSE product.stock

RECURSIVE SubtotalOfActiveLines(_, _)
SubtotalOfActiveLines(items, prods) ==
  IF items = <<>> THEN 0
  ELSE LET item == Head(items)
           product == prods[item.product]
       IN (IF product.isActive
           THEN LineUnitPrice(product, item.variant)
                  * Min(item.quantity, LineAvailableStock(product, item.variant))
           ELSE 0)
          + SubtotalOfActiveLines(Tail(items), prods)

\* C21: the summary getCart returns has as subtotal the sum over the lines of
\* active products of unit price x min(quantity, available stock), tax 8% of it
\* and total = subtotal + shipping + tax, so a cart holding an active product
\* in stock has a subtotal above 0.
C21_SubtotalOfActiveLines ==
  resp.op = "getCart"
    => /\ summary.subtotal = SubtotalOfActiveLines(cart, products)
       /\ summary.tax = (summary.subtotal * TaxPercent) \div 100
       /\ summary.total = summary.subtotal + summary.shipping + summary.tax
       /\ (\E i \in 1..Len(cart) :
             /\ products[cart[i].product].isActive
             /\ LineAvailableStock(products[cart[i].product], cart[i].variant) > 0)
          => summary.subtotal > 0

\* the product, variant and quantity of each line, in order
LinesOf(items) ==
  [i \in 1..Len(items) |->
     <<items[i].product, items[i].variant, items[i].quantity>>]

\* C22: getCart leaves the cart with the same lines, in the same order and with
\* the same quantities, whatever the state of the lines' products.
C22_GetCartKeepsLines ==
  [][GetCart => LinesOf(cart') = LinesOf(cart)]_vars

\* getCart has answered for a cart of two lines, one of them asking for more
\* than the stock its product has left
C22_Witness ==
  /\ resp.op = "getCart"
  /\ Len(cart) = 2
  /\ \E i \in 1..Len(cart) :
       cart[i].quantity > LineAvailableStock(products[cart[i].product], cart[i].variant)

\* C23: after any sequence of addToCart, updateCartItem and removeFromCart the
\* cart holds no two lines with the same product and the same variant sku.
C23_OneLinePerProductAndVariant ==
  \A i, j \in 1..Len(cart) :
    (cart[i].product = cart[j].product /\ cart[i].variant = cart[j].variant) => i = j

\* a step of one of the handlers that only read a coupon
ReadsCoupon ==
  \/ \E code \in StoredCodes, totalAmount \in Amounts : ValidateCoupon(code, totalAmount)
  \/ \E code \in StoredCodes : GetCouponByCode(code)
  \/ \E code \in StoredCodes, totalAmount \in Amounts : CalculateDiscount(code, totalAmount)

\* the usedCount of a stored coupon differs after the step
UsedCountChanges(code) ==
  /\ code \in DOMAIN coupons
  /\ code \in DOMAIN coupons'
  /\ coupons'[code].usedCount # coupons[code].usedCount

\* C24 as stated: validateCoupon, getCouponByCode and calculateDiscount leave
\* every coupon as it was, and usedCount changes through incrementUsage only,
\* by +1 per call.
C24_UsedCountOnlyByIncrementUsage ==
  [][/\ ReadsCoupon => coupons' = coupons
     /\ \A code \in StoredCodes :
          UsedCountChanges(code)
            => /\ IncrementUsage(code)
               /\ coupons'[code].usedCount = coupons[code].usedCount + 1]_vars

\* C24 amended: the handlers that read a coupon leave every coupon as it was;
\* usedCount changes by +1 through incrementUsage, or through an updateCoupon
\* whose body names usedCount.
C24_UsedCountByIncrementUsageOrUpdate ==
  [][/\ ReadsCoupon => coupons' = coupons
     /\ \A code \in StoredCodes :
          UsedCountChanges(code)
            => \/ /\ IncrementUsage(code)
                  /\ coupons'[code].usedCount = coupons[code].usedCount + 1
               \/ \E body \in UpdateBodies :
                    "usedCount" \in DOMAIN body /\ UpdateCoupon(code, body)]_vars

\* validateCoupon has answered with a discount for a coupon that was used once
C24_Witness ==
  /\ cresp.op = "validateCoupon"
  /\ cresp.kind = "ok"
  /\ cresp.discount > 0
  /\ coupons[cresp.code].usedCount = 1

\* C29: every coupon getActiveCoupons returns is active now: isActive, the
\* present within its dates, and its uses below its usageLimit if it has one.
C29_ListedCouponsAreActiveNow ==
  cresp.op = "getActiveCoupons"
    => \A code \in cresp.data : isActiveNow(coupons[code], now)

\* C25: the discount of an order placed with a coupon code is what
\* calculateDiscount of the stored coupon with that code yields for the order's
\* amount, so an order carries a discount only if that coupon exists and is
\* accepted; totalPrice is never below 0.
C25_DiscountIsCouponEvaluation ==
  \A o \in 1..Len(orders) :
    /\ orders[o].totalPrice >= 0
    /\ orders[o].coupon # None
         => /\ Val(orders[o].coupon).code \in DOMAIN coupons
            /\ LET r == calculateDiscount(coupons[Val(orders[o].coupon).code],
                                          orders[o].itemsPrice, now)
               IN r.kind = "ok" /\ Val(orders[o].coupon).discount = r.discount

\* C26: the stock of a product with variants is the sum of its variants' stocks.
C26_StockIsSumOfVariantStocks ==
  \A p \in ProductIds :
    DOMAIN products[p].variants # {}
      => products[p].stock =
           SumVariantStock(products[p].variants, DOMAIN products[p].variants)

\* C28: a createOrder that fails for another reason than insufficient stock
\* changes no product and stores no order.
C28_FailedCreateChangesNothing ==
  [][\A items \in Requests, couponCode \in CouponCodes, suffix \in Suffixes :
       (/\ CreateOrder(items, couponCode, suffix)
        /\ resp'.order = 0
        /\ resp'.kind \in {"NotFound", "VariantNotFound", "ServerError"})
       => (products' = products /\ orders' = orders)]_vars

\* the units of product p in the orders that are not cancelled
RECURSIVE UnitsInOpenOrders(_, _)
UnitsInOpenOrders(os, p) ==
  IF os = <<>> THEN 0
  ELSE (IF Head(os).orderStatus # "cancelled" THEN UnitsOf(Head(os).items, p) ELSE 0)
       + UnitsInOpenOrders(Tail(os), p)

\* the units of a product on hand: its stock counter and those of its variants
UnitsOnHand(product) ==
  product.stock + SumVariantStock(product.variants, DOMAIN product.variants)

\* C27: without admin stock edits, the units of a product on hand plus its
\* units in the orders that are not cancelled equal its initial stock, and its
\* soldCount equals the units in those orders.
C27_InventoryConservation ==
  \A p \in ProductIds :
    /\ UnitsOnHand(products[p]) + UnitsInOpenOrders(orders, p)
         = UnitsOnHand(InitProducts[p])
    /\ products[p].soldCount = UnitsInOpenOrders(orders, p)

\* no stock counter of a product or of a variant is below 0
StockNotNegative(prods) ==
  \A p \in ProductIds :
    /\ prods[p].stock >= 0
    /\ \A v \in DOMAIN prods[p].variants : prods[p].variants[v].stock >= 0

\* C30: every step of createOrder, cancelOrder and updateStock, in any
\* interleaving, leaves every product's and every variant's stock at 0 or
\* above, and updateStock with subtract stores max(0, stock - quantity).
C30_StockNeverNegative ==
  [][/\ StockNotNegative(products) /\ StockNotNegative(products')
     /\ \A p \in ProductIds, quantity \in StockQuantities :
          UpdateStock(p, "subtract", quantity)
            => /\ resp'.kind = "ok"
               /\ products'[p].stock =
                    IF products[p].stock - quantity < 0 THEN 0
                    ELSE products[p].stock - quantity]_vars

\* updateStock has answered ok as the last request, on a product that the one
\* stored order had emptied and that is still empty: one unit subtracted from
\* a stock of 0
C30_Witness ==
  /\ resp.op = "updateStock"
  /\ resp.kind = "ok"
  /\ Len(orders) = 1
  /\ orders[1].orderStatus # "cancelled"
  /\ Len(orders[1].items) = 1
  /\ orders[1].items[1].variant = NULL
  /\ orders[1].items[1].quantity = InitProducts[orders[1].items[1].product].stock
  /\ \E r \in RequestIds :
       reqs[r].pc = "stored" /\ \A r2 \in RequestIds \ {r} : reqs[r2].pc = "idle"
  /\ products[orders[1].items[1].product].stock = 0
  /\ \A q \in ProductIds \ {orders[1].items[1].product} : products[q] = InitProducts[q]

====
